---- MODULE Spec2Model ----
(***************************************************************************)
(* Geospatial-Change-Detection: the analytical core of the repository.     *)
(*                                                                         *)
(* Each family of variables is one script of the repository, run from its  *)
(* main(): the inputs are the rasters the script loads, every action is    *)
(* one function call of the script, and the position of the script is a    *)
(* pc variable.  A family that is not running has pc = "off".              *)
(*                                                                         *)
(*   temporal_analysis.py  (categorical change)  class_2017 ... ta_err     *)
(*   change_detection.py   (continuous change)   image_2018 ... cd_err     *)
(*   feature_extraction.py (feature stack)       sentinel_data ... fe_err  *)
(*   classification.py     (training data)       pt_features ... pt_err    *)
(*   classification.py     (the classifier)      cl_features ... cl_calls  *)
(*   validation.py         (accuracy assessment) va_prediction ... va_err  *)
(*   preprocessing.py      (normalize, resample) pp_image ... pp_err       *)
(*   simple_classification.py (the yearly run)   sc_sentinel ... sc_err    *)
(*                                                                         *)
(* The ri_ variables are a harness for the ratio indices, which are pure    *)
(* functions: one raster is given to the strict-masking functions of        *)
(* change_detection.py and to the epsilon-stabilized functions of           *)
(* feature_extraction.py.                                                   *)
(*                                                                         *)
(* numpy arrays are sequences of rows; an (h, w) array g has g[r][c].      *)
(***************************************************************************)
EXTENDS Integers, Sequences, FiniteSets, TLC

VARIABLES
    \* temporal_analysis.py
    class_2017,     \* the label grid read from classification_result_2017.tif
    class_2023,     \* the label grid read from classification_result_2023.tif
    change_matrix,  \* calculate_changes' 4x4 result
    change_map,     \* plot_change_map's binary map
    summary,        \* the figures main() prints
    ta_pc,          \* "loaded" -> "matrix" -> "mapped" -> "done", or "error"
    ta_err,         \* the exception that ended the script
    \* change_detection.py
    image_2018,     \* the 4-band raster (B2, B3, B4, B8) of 2018, as read
    image_2023,     \* the 4-band raster of 2023, as read
    changes,        \* detect_changes' dict: index -> (2018, 2023, change)
    area_stats,     \* calculate_area_stats' results for the three indices
    cd_pc,          \* "loaded" -> "detected" -> "stats", or "error"
    cd_err,         \* the exception that ended the script
    \* the ratio indices under both denominator policies
    ri_image,       \* the 4-band raster both families of functions are given
    ri_strict,      \* index -> result of change_detection.calculate_<index>
    ri_eps,         \* index -> result of feature_extraction.calculate_<index>
    ri_pc,          \* "loaded" -> "strict" -> "both"
    \* feature_extraction.py
    sentinel_data,  \* the 6-band raster (B2, B3, B4, B8, B11, B12) main() reads
    feature_stack,  \* extract_features' stacked layers
    feature_names,  \* extract_features' list of names
    fe_meta,        \* main()'s meta: the dict src.meta gave it
    fe_file,        \* the GeoTIFF save_features wrote, or None
    fe_pc,          \* "loaded" -> "extracted" -> "saved", or "error"
    fe_err,         \* the exception that ended the script
    \* classification.py: LandCoverClassifier.prepare_training_data
    pt_features,    \* the (bands, h, w) raster at features_path
    pt_labels,      \* the (h, w) raster at labels_path
    pt_rng,         \* the permutation np.random.RandomState(42) draws
    pt_first,       \* what the first call returned
    pt_split,       \* what the last call returned
    pt_pc,          \* "loaded" -> "split" -> "resplit", or "error"
    pt_err,         \* the exception the call raised
    \* classification.py: one LandCoverClassifier and its callers
    cl_features,    \* the (bands, h, w) feature stack at features_path
    cl_heap,        \* the RandomForestClassifier objects created so far
    cl_model,       \* self.model: the object of cl_heap the classifier holds
    cl_file,        \* the estimator joblib.dump wrote to model_path, or None
    cl_predicted,   \* the last two predict results, each with the estimator used
    cl_importance,  \* what the last get_feature_importance returned
    cl_last,        \* the last call: its name, its exception, its labels
    cl_ready,       \* whether a train or a load_model has returned
    cl_calls,       \* the number of calls made
    \* validation.py
    va_prediction,  \* band 1 of the raster at prediction_path
    va_ground_truth,\* band 1 of the raster at ground_truth_path
    va_y_pred,      \* y_pred after the background mask
    va_y_true,      \* y_true after the background mask
    va_cm,          \* calculate_metrics' confusion matrix
    va_report,      \* calculate_metrics' classification report
    va_pc,          \* "loaded" -> "done", or "error"
    va_err,         \* the exception that ended the script
    \* preprocessing.py: preprocess_sentinel_image
    pp_image,       \* the (bands, h, w) raster read_sentinel_image returned
    pp_meta,        \* the meta dict read_sentinel_image returned
    pp_normalized,  \* normalize_image's result
    pp_pc,          \* "loaded" -> "normalized" -> "resampled", or "error"
    pp_err,         \* the exception that ended the script
    \* simple_classification.py: main
    sc_sentinel,    \* year -> the raster in sentinel2_abudhabi_<year>.tif, or None
    sc_landcover,   \* band 1 of abudhabi_landcover.tif, or None if it is missing
    sc_rng,         \* the permutation np.random.RandomState(42) draws
    sc_year,        \* the position of the loop in years
    sc_aligned,     \* landcover as read onto the Sentinel-2 shape
    sc_X,           \* load_and_prepare_data's X
    sc_y,           \* load_and_prepare_data's y
    sc_clf,         \* the classifier train_classifier returned
    sc_results,     \* year -> the grid in classification_result_<year>.tif, or None
    sc_plots,       \* the years whose classification_plot_<year>.png is written
    sc_pc,          \* "loop" -> "load" -> "train" -> "classify" -> "plot" -> "loop",
                    \* then "done"; or "error"
    sc_err          \* the exception that ended the script

taVars == <<class_2017, class_2023, change_matrix, change_map, summary, ta_pc, ta_err>>
cdVars == <<image_2018, image_2023, changes, area_stats, cd_pc, cd_err>>
riVars == <<ri_image, ri_strict, ri_eps, ri_pc>>
feVars == <<sentinel_data, feature_stack, feature_names, fe_meta, fe_file, fe_pc, fe_err>>
ptVars == <<pt_features, pt_labels, pt_rng, pt_first, pt_split, pt_pc, pt_err>>
clVars == <<cl_features, cl_heap, cl_model, cl_file, cl_predicted, cl_importance,
            cl_last, cl_ready, cl_calls>>
vaVars == <<va_prediction, va_ground_truth, va_y_pred, va_y_true, va_cm, va_report,
            va_pc, va_err>>
ppVars == <<pp_image, pp_meta, pp_normalized, pp_pc, pp_err>>
scVars == <<sc_sentinel, sc_landcover, sc_rng, sc_year, sc_aligned, sc_X, sc_y, sc_clf,
            sc_results, sc_plots, sc_pc, sc_err>>
vars == <<taVars, cdVars, riVars, feVars, ptVars, clVars, vaVars, ppVars, scVars>>
\* What the actions of one script leave alone: the other scripts' variables.
notTA == <<cdVars, riVars, feVars, ptVars, clVars, vaVars, ppVars, scVars>>
notCD == <<taVars, riVars, feVars, ptVars, clVars, vaVars, ppVars, scVars>>
notRI == <<taVars, cdVars, feVars, ptVars, clVars, vaVars, ppVars, scVars>>
notFE == <<taVars, cdVars, riVars, ptVars, clVars, vaVars, ppVars, scVars>>
notPT == <<taVars, cdVars, riVars, feVars, clVars, vaVars, ppVars, scVars>>
notCL == <<taVars, cdVars, riVars, feVars, ptVars, vaVars, ppVars, scVars>>
notVA == <<taVars, cdVars, riVars, feVars, ptVars, clVars, ppVars, scVars>>
notPP == <<taVars, cdVars, riVars, feVars, ptVars, clVars, vaVars, scVars>>
notSC == <<taVars, cdVars, riVars, feVars, ptVars, clVars, vaVars, ppVars>>

\* ------------------------------------------------------------------ bounds
\* The two rasters a script compares hold at most MaxPairCells cells together.
MaxPairCells == 5
\* The cell values of the Sentinel-2 rasters of one run add up, in absolute
\* value and in units of the raster's scale, to at most MaxTotalDN.
MaxTotalDN == 4
\* The callers of one LandCoverClassifier make at most MaxCalls calls.
MaxCalls == 4

\* ------------------------------------------------------ numpy array shapes
Shape(g) == <<Len(g), Len(g[1])>>
ShapesUpTo(n) == {s \in (1..n) \X (1..n) : s[1] * s[2] <= n}
Grids(s, V) == [1..s[1] -> [1..s[2] -> V]]
Cells(s) == (1..s[1]) \X (1..s[2])

\* numpy broadcasting of two 2-D shapes: each axis must agree or be 1.
Broadcastable(s, t) ==
    \A k \in 1..2 : s[k] = t[k] \/ s[k] = 1 \/ t[k] = 1
Max2(a, b) == IF a >= b THEN a ELSE b
BroadcastShape(s, t) == <<Max2(s[1], t[1]), Max2(s[2], t[2])>>
\* The cell of g that numpy reads at position p of the broadcast result.
At(g, p) ==
    g[IF Len(g) = 1 THEN 1 ELSE p[1]][IF Len(g[1]) = 1 THEN 1 ELSE p[2]]

\* np.sum of an array given as a sequence of rows of integers.
RECURSIVE SumSeq(_)
SumSeq(s) == IF s = <<>> THEN 0 ELSE s[1] + SumSeq(Tail(s))
NpSum(g) == SumSeq([r \in 1..Len(g) |-> SumSeq(g[r])])

\* ------------------------------------------------- numpy float arithmetic
\* A float64 cell is a record: a rational n/d in lowest terms with d > 0
\* (k = "num"), nan, or an infinity (k = "inf", n its sign).  Rounding is
\* abstracted: the operations below are exact on the rationals and follow
\* IEEE 754 (numpy's defaults: warnings, never exceptions) on nan and inf.
NaN == [k |-> "nan", n |-> 0, d |-> 1]
PosInf == [k |-> "inf", n |-> 1, d |-> 1]
NegInf == [k |-> "inf", n |-> -1, d |-> 1]
AbsI(i) == IF i < 0 THEN -i ELSE i
SgnI(i) == IF i < 0 THEN -1 ELSE IF i = 0 THEN 0 ELSE 1
RECURSIVE GCD(_, _)
GCD(a, b) == IF b = 0 THEN a ELSE GCD(b, a % b)
Rat(n, d) ==
    LET g == GCD(AbsI(n), AbsI(d))
    IN  [k |-> "num", n |-> SgnI(d) * (n \div g), d |-> AbsI(d) \div g]
FromInt(i) == [k |-> "num", n |-> i, d |-> 1]
IsNum(x) == x.k = "num"
IsNaN(x) == x.k = "nan"
IsInf(x) == x.k = "inf"
FNeg(x) == [x EXCEPT !.n = -x.n]
FAdd(x, y) ==
    IF IsNaN(x) \/ IsNaN(y) THEN NaN
    ELSE IF IsInf(x) /\ IsInf(y) THEN (IF x.n = y.n THEN x ELSE NaN)
    ELSE IF IsInf(x) THEN x
    ELSE IF IsInf(y) THEN y
    ELSE LET g == GCD(x.d, y.d)
             l == (x.d \div g) * y.d
         IN  Rat(x.n * (l \div x.d) + y.n * (l \div y.d), l)
FSub(x, y) == FAdd(x, FNeg(y))
FMul(x, y) ==
    IF IsNaN(x) \/ IsNaN(y) THEN NaN
    ELSE IF IsInf(x) \/ IsInf(y)
         THEN (IF x.n = 0 \/ y.n = 0 THEN NaN
               ELSE IF SgnI(x.n) * SgnI(y.n) > 0 THEN PosInf ELSE NegInf)
    ELSE LET g1 == GCD(AbsI(x.n), y.d)
             g2 == GCD(AbsI(y.n), x.d)
         IN  Rat((x.n \div g1) * (y.n \div g2), (x.d \div g2) * (y.d \div g1))
FDiv(x, y) ==
    IF IsNaN(x) \/ IsNaN(y) THEN NaN
    ELSE IF IsInf(y) THEN (IF IsInf(x) THEN NaN ELSE FromInt(0))
    ELSE IF y.n = 0
         THEN (IF x.n = 0 THEN NaN ELSE IF x.n > 0 THEN PosInf ELSE NegInf)
    ELSE FMul(x, Rat(y.d, y.n))
\* Comparisons: every comparison with nan is False.
FGt(x, y) ==
    IF IsNaN(x) \/ IsNaN(y) THEN FALSE
    ELSE IF IsInf(x) THEN x.n > 0 /\ y # PosInf
    ELSE IF IsInf(y) THEN y.n < 0
    ELSE x.n * y.d > y.n * x.d
FLt(x, y) == FGt(y, x)

\* ===================================================== temporal_analysis.py
n_classes == 4
\* The uint8 values a classification raster holds: 0 (background), the class
\* identifiers 1..n_classes, and one value standing for every other code.
OtherCode == n_classes + 1
PixelValues == 0..OtherCode

\* calculate_changes: np.zeros((4, 4)), then for i, j in range(1, 5):
\* change_matrix[i-1, j-1] = np.sum((class_2017 == i) & (class_2023 == j)).
\* The matrix is indexed here by the class identifiers 1..4.
CountPairs(c17, c23, i, j) ==
    LET s == BroadcastShape(Shape(c17), Shape(c23))
    IN  NpSum([r \in 1..s[1] |-> [c \in 1..s[2] |->
            IF At(c17, <<r, c>>) = i /\ At(c23, <<r, c>>) = j THEN 1 ELSE 0]])
calculate_changes_or(c17, c23) ==
    LET s == BroadcastShape(Shape(c17), Shape(c23))
    IN  [i \in 1..n_classes |-> [j \in 1..n_classes |->
            NpSum([r \in 1..s[1] |-> [c \in 1..s[2] |->
                IF At(c17, <<r, c>>) = i \/ At(c23, <<r, c>>) = j THEN 1 ELSE 0]])]]
calculate_changes_short(c17, c23) ==
    [i \in 1..n_classes |-> [j \in 1..n_classes |->
        IF i < n_classes /\ j < n_classes THEN CountPairs(c17, c23, i, j) ELSE 0]]
calculate_changes(c17, c23) ==
    [i \in 1..n_classes |-> [j \in 1..n_classes |-> CountPairs(c17, c23, i, j)]]

\* np.sum(change_matrix) and np.sum(np.diag(change_matrix)).
MatrixSum(m) == NpSum(m)
MatrixTrace(m) == SumSeq([i \in 1..Len(m) |-> m[i][i]])

\* plot_change_map: change_map = (class_2017 != class_2023).astype(int).
ChangeMap(c17, c23) ==
    LET s == BroadcastShape(Shape(c17), Shape(c23))
    IN  [r \in 1..s[1] |-> [c \in 1..s[2] |->
            IF At(c17, <<r, c>>) # At(c23, <<r, c>>) THEN 1 ELSE 0]]

\* main()'s summary: total, changed pixels, and the percentage it prints.
\* The operands are numpy int64 scalars, so 0 / 0 is nan, not an exception.
Summarize(m) ==
    LET total_pixels == MatrixSum(m)
        changed == MatrixSum(m) - MatrixTrace(m)
    IN  [total |-> total_pixels,
         changed |-> changed,
         percent |-> FMul(FDiv(FromInt(changed), FromInt(total_pixels)), FromInt(100))]

None == <<>>

TAOff ==
    /\ class_2017 = None /\ class_2023 = None /\ change_matrix = None
    /\ change_map = None /\ summary = None /\ ta_pc = "off" /\ ta_err = "none"

\* main() after both load_classification calls returned a raster.
TAInit ==
    /\ \E s \in ShapesUpTo(MaxPairCells - 1) :
       \E t \in ShapesUpTo(MaxPairCells - s[1] * s[2]) :
          /\ class_2017 \in Grids(s, PixelValues)
          /\ class_2023 \in Grids(t, PixelValues)
    /\ change_matrix = None
    /\ change_map = None
    /\ summary = None
    /\ ta_pc = "loaded"
    /\ ta_err = "none"

\* change_matrix = calculate_changes(class_2017, class_2023); the `&` of two
\* arrays that do not broadcast raises numpy's ValueError.
CalculateChanges ==
    /\ ta_pc = "loaded"
    /\ IF Broadcastable(Shape(class_2017), Shape(class_2023))
       THEN /\ change_matrix' = calculate_changes(class_2017, class_2023)
            /\ ta_pc' = "matrix"
            /\ ta_err' = ta_err
       ELSE /\ change_matrix' = change_matrix
            /\ ta_pc' = "error"
            /\ ta_err' = "ValueError"
    /\ UNCHANGED <<class_2017, class_2023, change_map, summary, notTA>>

PlotChangeMap ==
    /\ ta_pc = "matrix"
    /\ change_map' = ChangeMap(class_2017, class_2023)
    /\ ta_pc' = "mapped"
    /\ UNCHANGED <<class_2017, class_2023, change_matrix, summary, ta_err, notTA>>

PrintSummary ==
    /\ ta_pc = "mapped"
    /\ summary' = Summarize(change_matrix)
    /\ ta_pc' = "done"
    /\ UNCHANGED <<class_2017, class_2023, change_matrix, change_map, ta_err, notTA>>


\* ===================================================== change_detection.py
\* Elementwise numpy operations, with broadcasting.
Map1(f(_), g) == [r \in 1..Len(g) |-> [c \in 1..Len(g[1]) |-> f(g[r][c])]]
Map2(f(_, _), g, h) ==
    LET s == BroadcastShape(Shape(g), Shape(h))
    IN  [r \in 1..s[1] |-> [c \in 1..s[2] |-> f(At(g, <<r, c>>), At(h, <<r, c>>))]]

\* denominator = a + b; denominator[denominator == 0] = np.nan;
\* return (a - b) / denominator  -- one cell of the strict-masking policy.
StrictRatio(a, b) ==
    LET denominator == FAdd(a, b)
        masked == IF IsNum(denominator) /\ denominator.n = 0 THEN NaN ELSE denominator
    IN  FDiv(FSub(a, b), masked)

\* image[k] of the source is band k + 1 here.  A raster cell is a number
\* record (a digital number has d = 1), so .astype(float) keeps every value.
AsFloat(band) == band
cd_calculate_ndvi(image) == Map2(StrictRatio, AsFloat(image[4]), AsFloat(image[3]))
cd_calculate_ndwi(image) == Map2(StrictRatio, AsFloat(image[2]), AsFloat(image[4]))
\* swir = image[0]: the source takes B2 as a placeholder for the SWIR band.
cd_calculate_ndbi(image) == Map2(StrictRatio, AsFloat(image[1]), AsFloat(image[4]))

IndexNames == {"ndvi", "ndwi", "ndbi"}
Triple(i18, i23, sub(_, _)) == <<i18, i23, Map2(sub, i23, i18)>>
FSubReversed(x, y) == FSub(y, x)
detect_changes_reversed(im18, im23) ==
    [ndvi |-> Triple(cd_calculate_ndvi(im18), cd_calculate_ndvi(im23), FSubReversed),
     ndwi |-> Triple(cd_calculate_ndwi(im18), cd_calculate_ndwi(im23), FSubReversed),
     ndbi |-> Triple(cd_calculate_ndbi(im18), cd_calculate_ndbi(im23), FSubReversed)]
detect_changes(im18, im23) ==
    [ndvi |-> Triple(cd_calculate_ndvi(im18), cd_calculate_ndvi(im23), FSub),
     ndwi |-> Triple(cd_calculate_ndwi(im18), cd_calculate_ndwi(im23), FSub),
     ndbi |-> Triple(cd_calculate_ndbi(im18), cd_calculate_ndbi(im23), FSub)]

\* calculate_area_stats(change, pixel_size_x, pixel_size_y, threshold=0.1).
DefaultThreshold == [k |-> "num", n |-> 1, d |-> 10]
SqMetresPerKm2 == 1000000
BoolGrid(p(_), g) == [r \in 1..Len(g) |-> [c \in 1..Len(g[1]) |-> IF p(g[r][c]) THEN 1 ELSE 0]]
FGe(x, y) == FGt(x, y) \/ (~IsNaN(x) /\ x = y)
calculate_area_stats_ge(change, pixel_size_x, pixel_size_y, threshold) ==
    LET pos(x) == FGe(x, threshold)
        neg(x) == FGe(FNeg(threshold), x)
        pixel_area_km2 == FDiv(FromInt(pixel_size_x * pixel_size_y), FromInt(SqMetresPerKm2))
    IN  <<FMul(FromInt(NpSum(BoolGrid(pos, change))), pixel_area_km2),
          FMul(FromInt(NpSum(BoolGrid(neg, change))), pixel_area_km2)>>
calculate_area_stats(change, pixel_size_x, pixel_size_y, threshold) ==
    LET pos_mask(x) == FGt(x, threshold)
        neg_mask(x) == FLt(x, FNeg(threshold))
        pixel_area_km2 == FDiv(FromInt(pixel_size_x * pixel_size_y), FromInt(SqMetresPerKm2))
    IN  <<FMul(FromInt(NpSum(BoolGrid(pos_mask, change))), pixel_area_km2),
          FMul(FromInt(NpSum(BoolGrid(neg_mask, change))), pixel_area_km2)>>

\* The inputs of the run: the shapes of the two rasters (equal, broadcastable,
\* and not broadcastable), the thresholds and the pixel sizes (metres).
CDShapePairs ==
    { <<(<<1, 1>>), (<<1, 1>>)>>, <<(<<1, 2>>), (<<1, 2>>)>>, <<(<<2, 1>>), (<<2, 1>>)>>,
      <<(<<1, 1>>), (<<1, 2>>)>>, <<(<<1, 2>>), (<<1, 3>>)>> }
Thresholds == {DefaultThreshold, FromInt(1)}
PixelSizes == { <<10, 10>>, <<20, 30>> }

\* All sequences of n naturals that add up to at most b.
RECURSIVE BoundedSeqs(_, _)
BoundedSeqs(n, b) ==
    IF n = 0 THEN { <<>> }
    ELSE UNION { { <<v>> \o q : q \in BoundedSeqs(n - 1, b - v) } : v \in 0..b }
\* The (bands, h, w) array whose cells are flat[off + 1 ..] / scale, in C order.
Reshape(flat, off, bands, s, scale) ==
    [b \in 1..bands |-> [r \in 1..s[1] |-> [c \in 1..s[2] |->
        Rat(flat[off + (b - 1) * s[1] * s[2] + (r - 1) * s[2] + c], scale)]]]
ImageShape(image) == Shape(image[1])
n_bands == 4

CDOff ==
    /\ image_2018 = None /\ image_2023 = None /\ changes = None
    /\ area_stats = None /\ cd_pc = "off" /\ cd_err = "none"

\* main() after both load_sentinel_image calls.
CDInit ==
    /\ \E sp \in CDShapePairs :
       \E flat \in BoundedSeqs(n_bands * (sp[1][1] * sp[1][2] + sp[2][1] * sp[2][2]), MaxTotalDN) :
          /\ image_2018 = Reshape(flat, 0, n_bands, sp[1], 1)
          /\ image_2023 = Reshape(flat, n_bands * sp[1][1] * sp[1][2], n_bands, sp[2], 1)
    /\ changes = None
    /\ area_stats = None
    /\ cd_pc = "loaded"
    /\ cd_err = "none"

\* changes = detect_changes(image_2018, image_2023); the subtraction of two
\* arrays that do not broadcast raises numpy's ValueError.
DetectChanges ==
    /\ cd_pc = "loaded"
    /\ IF Broadcastable(ImageShape(image_2018), ImageShape(image_2023))
       THEN /\ changes' = detect_changes(image_2018, image_2023)
            /\ cd_pc' = "detected"
            /\ cd_err' = cd_err
       ELSE /\ changes' = changes
            /\ cd_pc' = "error"
            /\ cd_err' = "ValueError"
    /\ UNCHANGED <<image_2018, image_2023, area_stats, notCD>>

\* main()'s loop over the three indices: calculate_area_stats on each change.
AreaStats ==
    /\ cd_pc = "detected"
    /\ \E threshold \in Thresholds, px \in PixelSizes :
          area_stats' =
              [threshold |-> threshold, pixel_size_x |-> px[1], pixel_size_y |-> px[2],
               areas |-> [i \in IndexNames |->
                   calculate_area_stats(changes[i][3], px[1], px[2], threshold)]]
    /\ cd_pc' = "stats"
    /\ UNCHANGED <<image_2018, image_2023, changes, cd_err, notCD>>

\* ===================================================== feature_extraction.py
\* The additive constant of the epsilon-stabilized policy, 1e-6.
EpsInv == 1000000
Eps == [k |-> "num", n |-> 1, d |-> EpsInv]

\* (a - b) / (a + b + 1e-6) -- one cell of calculate_ndvi / _ndwi / _ndbi.
EpsRatio(a, b) == FDiv(FSub(a, b), FAdd(FAdd(a, b), Eps))
calculate_ndvi(nir, red) == Map2(EpsRatio, nir, red)
calculate_ndwi(green, nir) == Map2(EpsRatio, green, nir)
calculate_ndbi(swir, nir) == Map2(EpsRatio, swir, nir)

\* calculate_savi(nir, red, L=0.5):
\* ((nir - red) * (1 + L)) / (nir + red + L + 1e-6).
SaviL == [k |-> "num", n |-> 1, d |-> 2]
SaviCell(nir, red) ==
    FDiv(FMul(FSub(nir, red), FAdd(FromInt(1), SaviL)),
         FAdd(FAdd(FAdd(nir, red), SaviL), Eps))
calculate_savi(nir, red) == Map2(SaviCell, nir, red)

\* np.sqrt: nan (a RuntimeWarning, no exception) for a negative argument.  The
\* root of a rational square is exact; any other root is irrational and is
\* kept as the record [k |-> "sqrt"] of its argument n/d.
ISqrt(n) == CHOOSE r \in 0..n : r * r <= n /\ n < (r + 1) * (r + 1)
IsSquare(n) == ISqrt(n) * ISqrt(n) = n
FAbs(x) == [x EXCEPT !.n = AbsI(x.n)]
Root(x) ==
    IF IsSquare(x.n) /\ IsSquare(x.d)
    THEN Rat(ISqrt(x.n), ISqrt(x.d))
    ELSE [k |-> "sqrt", n |-> x.n, d |-> x.d]
FSqrt_abs(x) ==
    IF IsNaN(x) THEN NaN ELSE IF IsInf(x) THEN PosInf ELSE Root(FAbs(x))
FSqrt(x) ==
    IF IsNaN(x) THEN NaN
    ELSE IF IsInf(x) THEN (IF x.n > 0 THEN PosInf ELSE NaN)
    ELSE IF x.n < 0 THEN NaN
    ELSE Root(x)

\* calculate_msavi: (2 * nir + 1 - np.sqrt((2 * nir + 1)**2 - 8 * (nir - red))) / 2.
\* With an irrational root the cell is the record [k |-> "surd"], which
\* stands for the number (n - sqrt(rad)) / d.
MsaviCell(nir, red) ==
    LET a == FAdd(FMul(FromInt(2), nir), FromInt(1))
        root == FSqrt(FSub(FMul(a, a), FMul(FromInt(8), FSub(nir, red))))
    IN  IF root.k = "sqrt"
        THEN [k |-> "surd", n |-> a, d |-> 2, rad |-> Rat(root.n, root.d)]
        ELSE FDiv(FSub(a, root), FromInt(2))
calculate_msavi(nir, red) == Map2(MsaviCell, nir, red)

\* Elementwise operation on three and on four arrays of one shape.
Map3(f(_, _, _), g, h, i) ==
    [r \in 1..Len(g) |-> [c \in 1..Len(g[1]) |-> f(g[r][c], h[r][c], i[r][c])]]
Map4(f(_, _, _, _), g, h, i, j) ==
    [r \in 1..Len(g) |-> [c \in 1..Len(g[1]) |-> f(g[r][c], h[r][c], i[r][c], j[r][c])]]

\* calculate_evi: 2.5 * (nir - red) / (nir + 6 * red - 7.5 * blue + 1 + 1e-6).
EviGain == [k |-> "num", n |-> 5, d |-> 2]
EviBlue == [k |-> "num", n |-> 15, d |-> 2]
EviCell(nir, red, blue) ==
    FDiv(FMul(EviGain, FSub(nir, red)),
         FAdd(FAdd(FSub(FAdd(nir, FMul(FromInt(6), red)), FMul(EviBlue, blue)),
                   FromInt(1)), Eps))
calculate_evi(nir, red, blue) == Map3(EviCell, nir, red, blue)

\* calculate_bsi: ((swir + red) - (nir + blue)) / ((swir + red) + (nir + blue) + 1e-6).
BsiCell(swir, nir, red, blue) ==
    FDiv(FSub(FAdd(swir, red), FAdd(nir, blue)),
         FAdd(FAdd(FAdd(swir, red), FAdd(nir, blue)), Eps))
calculate_bsi(swir, nir, red, blue) == Map4(BsiCell, swir, nir, red, blue)

\* extract_features: the dict of the seven indices, in insertion order, as a
\* sequence of <<name, layer>>; np.stack(list(features.values())) and
\* list(features.keys()).
Features(data) ==
    LET blue == data[1]
        green == data[2]
        red == data[3]
        nir == data[4]
        swir1 == data[5]
    IN  << <<"NDVI", calculate_ndvi(nir, red)>>,
           <<"NDWI", calculate_ndwi(green, nir)>>,
           <<"NDBI", calculate_ndbi(swir1, nir)>>,
           <<"SAVI", calculate_savi(nir, red)>>,
           <<"MSAVI", calculate_msavi(nir, red)>>,
           <<"EVI", calculate_evi(nir, red, blue)>>,
           <<"BSI", calculate_bsi(swir1, nir, red, blue)>> >>
extract_features_swapped(data) ==
    LET f == Features(data)
        order == <<1, 2, 3, 5, 4, 6, 7>>
    IN  <<[i \in 1..Len(f) |-> f[order[i]][2]], [i \in 1..Len(f) |-> f[i][1]]>>
extract_features(data) ==
    LET features == Features(data)
    IN  <<[i \in 1..Len(features) |-> features[i][2]],
          [i \in 1..Len(features) |-> features[i][1]]>>

\* All sequences of n integers whose absolute values add up to at most b.
RECURSIVE SignedSeqs(_, _)
SignedSeqs(n, b) ==
    IF n = 0 THEN { <<>> }
    ELSE UNION { { <<v>> \o q : q \in SignedSeqs(n - 1, b - AbsI(v)) } : v \in (-b)..b }
\* The shapes of a single raster.
ImageShapes == { <<1, 1>>, <<1, 2>>, <<2, 1>> }
\* The cells of the preprocessed raster are multiples of 1 / scale.
FEScales == {1, 2}
n_feature_bands == 6
\* The band counts of the rasters the repository produces: 4 (B2, B3, B4, B8,
\* download_sentinel_*.py), 5 (with B11, data_collection.py), and the 6 that
\* extract_features reads.
BandCounts == {4, 5, n_feature_bands}

\* An affine.Affine: the 9-tuple (a, b, c, d, e, f, g, h, i) of a north-up
\* raster whose pixels are res metres wide, with its corner at the origin.
Affine(res) == <<res, 0, 0, 0, -res, 0, 0, 0, 1>>
\* src.meta of a raster holding the array image.
Meta(image, dtype, res) ==
    [count |-> Len(image), height |-> Len(image[1]), width |-> Len(image[1][1]),
     dtype |-> dtype, transform |-> Affine(res), crs |-> "EPSG:4326"]
target_resolution == 10

FEOff ==
    /\ sentinel_data = None /\ feature_stack = None /\ feature_names = None
    /\ fe_meta = None /\ fe_file = None
    /\ fe_pc = "off" /\ fe_err = "none"

\* main() after src.read().
FEInit ==
    /\ \E s \in ImageShapes, scale \in FEScales, count \in BandCounts :
       \E flat \in SignedSeqs(count * s[1] * s[2], MaxTotalDN - 1) :
          sentinel_data = Reshape(flat, 0, count, s, scale)
    /\ fe_meta = Meta(sentinel_data, "float64", target_resolution)
    /\ fe_file = None
    /\ feature_stack = None
    /\ feature_names = None
    /\ fe_pc = "loaded"
    /\ fe_err = "none"

\* feature_stack, feature_names = extract_features(sentinel_data).  The six
\* band reads sentinel_data[0] .. sentinel_data[5] come first: on an array of
\* fewer bands numpy raises IndexError before any index is computed.
ExtractFeatures ==
    /\ fe_pc = "loaded"
    /\ IF Len(sentinel_data) >= n_feature_bands
       THEN /\ feature_stack' = extract_features(sentinel_data)[1]
            /\ feature_names' = extract_features(sentinel_data)[2]
            /\ fe_pc' = "extracted"
            /\ fe_err' = fe_err
       ELSE /\ UNCHANGED <<feature_stack, feature_names>>
            /\ fe_pc' = "error"
            /\ fe_err' = "IndexError"
    /\ UNCHANGED <<sentinel_data, fe_meta, fe_file, notFE>>

\* save_features(feature_stack, feature_names, output_file, meta):
\* meta.update(...) on the dict it was handed, then the file is written with
\* that dict as its profile.
SaveFeatures ==
    /\ fe_pc = "extracted"
    /\ fe_meta' = [fe_meta EXCEPT !.count = Len(feature_names), !.dtype = "float32"]
    /\ fe_file' = [meta |-> fe_meta', bands |-> feature_stack, descriptions |-> feature_names]
    /\ fe_pc' = "saved"
    /\ UNCHANGED <<sentinel_data, feature_stack, feature_names, fe_err, notFE>>

\* ========================================================= classification.py
\* A feature cell is a float the classifier only compares; it is modelled
\* by a small natural number.
\* np.moveaxis(features, 0, -1).reshape(-1, bands): row k is the pixel k of
\* the raster in C order, one column per band.
PixelRows_nomoveaxis(features) ==
    LET s == ImageShape(features)
        bands == Len(features)
        flat(k) == features[((k - 1) \div (s[1] * s[2])) + 1]
                           [(((k - 1) % (s[1] * s[2])) \div s[2]) + 1]
                           [((k - 1) % s[2]) + 1]
    IN  [k \in 1..(s[1] * s[2]) |-> [b \in 1..bands |-> flat((k - 1) * bands + b)]]
PixelRows(features) ==
    LET s == ImageShape(features)
    IN  [k \in 1..(s[1] * s[2]) |->
            [b \in 1..Len(features) |->
                features[b][((k - 1) \div s[2]) + 1][((k - 1) % s[2]) + 1]]]
\* labels.reshape(-1): the cells of a 2-D array in C order.
Flatten(g) ==
    LET s == Shape(g)
    IN  [k \in 1..(s[1] * s[2]) |-> g[((k - 1) \div s[2]) + 1][((k - 1) % s[2]) + 1]]
\* Whether predictions.reshape(shape) can be done, and its result.
Unflatten(flat, s) == [r \in 1..s[1] |-> [c \in 1..s[2] |-> flat[(r - 1) * s[2] + c]]]

\* mask = y != 0; a[mask]: the indices mask selects, in increasing order.
RECURSIVE IndicesFrom(_, _)
IndicesFrom(y, k) ==
    IF k > Len(y) THEN <<>>
    ELSE (IF y[k] # 0 THEN <<k>> ELSE <<>>) \o IndicesFrom(y, k + 1)
Nonzero(y) == IndicesFrom(y, 1)
Take(a, idx) == [i \in 1..Len(idx) |-> a[idx[i]]]

\* sklearn's train_test_split(X, y, test_size=0.2, random_state=42):
\* n_test = ceil(0.2 * n), n_train = n - n_test; the test rows are the first
\* n_test entries of the permutation, the training rows the next n_train.
TestSize(n) == (n + 4) \div 5
TrainSize(n) == n - TestSize(n)
train_test_split_overlap(X, y, permutation) ==
    LET n_test == TestSize(Len(y))
        ind_test == [i \in 1..n_test |-> permutation[i]]
        ind_train == [i \in 1..TrainSize(Len(y)) |-> permutation[n_test + i - 1]]
    IN  <<Take(X, ind_train), Take(X, ind_test), Take(y, ind_train), Take(y, ind_test)>>
train_test_split(X, y, permutation) ==
    LET n_test == TestSize(Len(y))
        ind_test == [i \in 1..n_test |-> permutation[i]]
        ind_train == [i \in 1..TrainSize(Len(y)) |-> permutation[n_test + i]]
    IN  <<Take(X, ind_train), Take(X, ind_test), Take(y, ind_train), Take(y, ind_test)>>

\* The permutations of 1..n.
RECURSIVE PermsOf(_)
PermsOf(S) ==
    IF S = {} THEN { <<>> }
    ELSE UNION { { <<x>> \o q : q \in PermsOf(S \ {x}) } : x \in S }
Perms(n) == PermsOf(1..n)

\* prepare_training_data: the exception it raises, or "none".  A boolean
\* mask of another length than X raises IndexError; a training subset that
\* would be empty raises train_test_split's ValueError.
PrepareError(features, labels) ==
    IF Len(PixelRows(features)) # Len(Flatten(labels)) THEN "IndexError"
    ELSE IF TrainSize(Len(Nonzero(Flatten(labels)))) = 0 THEN "ValueError"
    ELSE "none"
prepare_training_data(features, labels, permutation) ==
    LET mask == Nonzero(Flatten(labels))
    IN  train_test_split(Take(PixelRows(features), mask), Take(Flatten(labels), mask),
                         permutation)

\* The rasters of a call: <<bands, shape of the features, shape of the labels>>.
PTShapes ==
    { <<2, (<<1, 1>>), (<<1, 1>>)>>, <<2, (<<1, 2>>), (<<1, 2>>)>>,
      <<2, (<<1, 2>>), (<<2, 1>>)>>, <<1, (<<1, 2>>), (<<1, 3>>)>>,
      <<1, (<<2, 2>>), (<<2, 2>>)>>, <<1, (<<2, 2>>), (<<1, 4>>)>>,
      <<1, (<<1, 5>>), (<<1, 5>>)>> }
\* The label values of the rasters: background and two classes.
PTLabels == 0..2

PTOff ==
    /\ pt_features = None /\ pt_labels = None /\ pt_rng = None
    /\ pt_first = None /\ pt_split = None /\ pt_pc = "off" /\ pt_err = "none"

PTInit ==
    /\ \E sh \in PTShapes :
          /\ \E flat \in BoundedSeqs(sh[1] * sh[2][1] * sh[2][2], MaxTotalDN - 3) :
                pt_features = [b \in 1..sh[1] |-> [r \in 1..sh[2][1] |-> [c \in 1..sh[2][2] |->
                    flat[(b - 1) * sh[2][1] * sh[2][2] + (r - 1) * sh[2][2] + c]]]]
          /\ pt_labels \in Grids(sh[3], PTLabels)
    /\ pt_rng \in Perms(Len(Nonzero(Flatten(pt_labels))))
    /\ pt_first = None
    /\ pt_split = None
    /\ pt_pc = "loaded"
    /\ pt_err = "none"

\* One call of prepare_training_data(features_path, labels_path); the second
\* call reads the same two files.
PrepareTrainingData ==
    /\ pt_pc \in {"loaded", "split"}
    /\ IF PrepareError(pt_features, pt_labels) = "none"
       THEN /\ pt_split' = prepare_training_data(pt_features, pt_labels, pt_rng)
            /\ pt_first' = IF pt_pc = "loaded" THEN pt_split' ELSE pt_first
            /\ pt_pc' = IF pt_pc = "loaded" THEN "split" ELSE "resplit"
            /\ pt_err' = pt_err
       ELSE /\ UNCHANGED <<pt_first, pt_split>>
            /\ pt_pc' = "error"
            /\ pt_err' = PrepareError(pt_features, pt_labels)
    /\ UNCHANGED <<pt_features, pt_labels, pt_rng, notPT>>

\* ------------------------------------------- LandCoverClassifier, the object
\* sklearn's RandomForestClassifier is a library: a fitted forest is modelled
\* by what the repository can observe of it, the number of columns it was
\* fitted on, its classes, the class it predicts for a row, and its
\* feature_importances_.  The forest is one decision node on the column
\* `feature` (rows below 0.5 are class lo, the others class hi), or a single
\* leaf (feature = 0, lo = hi) when the labels hold one class.
Unfitted == [fitted |-> FALSE, n_features_in |-> 0, classes |-> {}, feature |-> 0, lo |-> 0, hi |-> 0]
\* self.feature_names, set in __init__ and never changed.
self_feature_names == <<"NDVI", "NDWI", "NDBI">>

Classes(y) == {y[i] : i \in 1..Len(y)}
\* Column f separates the classes of the training rows.
Separates(X, y, f) ==
    /\ \E i \in 1..Len(y) : X[i][f] = 0
    /\ \E i \in 1..Len(y) : X[i][f] >= 1
    /\ \A i, j \in 1..Len(y) : ((X[i][f] >= 1) = (X[j][f] >= 1)) => y[i] = y[j]
\* model.fit(X, y): the forests the fit can produce.  One class of labels is
\* fitted without an error.
Fit(X, y) ==
    IF Cardinality(Classes(y)) = 1
    THEN {[fitted |-> TRUE, n_features_in |-> Len(X[1]), classes |-> Classes(y),
           feature |-> 0, lo |-> y[1], hi |-> y[1]]}
    ELSE {[fitted |-> TRUE, n_features_in |-> Len(X[1]), classes |-> Classes(y),
           feature |-> f,
           lo |-> y[CHOOSE i \in 1..Len(y) : X[i][f] = 0],
           hi |-> y[CHOOSE i \in 1..Len(y) : X[i][f] >= 1]] :
              f \in {g \in 1..Len(X[1]) : Separates(X, y, g)}}
\* model.predict on one row, and model.feature_importances_ (normalised to
\* sum to 1 unless no tree has a decision node, when it is all zeros).
PredictRow(model, row) ==
    IF model.feature = 0 THEN model.lo
    ELSE IF row[model.feature] >= 1 THEN model.hi ELSE model.lo
Importances(model) ==
    [b \in 1..model.n_features_in |-> IF b = model.feature THEN 1 ELSE 0]

\* predict: the exception it raises, or "none".
PredictError(model, features) ==
    IF ~model.fitted THEN "NotFittedError"
    ELSE IF Len(features) # model.n_features_in THEN "ValueError"
    ELSE "none"
\* predict: X = the pixel rows, model.predict(X), reshape(features.shape[:2]).
predict(model, features) ==
    LET X == PixelRows(features)
    IN  Unflatten([k \in 1..Len(X) |-> PredictRow(model, X[k])], ImageShape(features))

\* get_feature_importance: dict(zip(self.feature_names, importance)), which
\* stops at the shorter of the two.
Zip(a, b) ==
    [i \in 1..(IF Len(a) <= Len(b) THEN Len(a) ELSE Len(b)) |-> <<a[i], b[i]>>]
get_feature_importance(model) == Zip(self_feature_names, Importances(model))

\* The numbers of feature columns: the three indices __init__ names, and the
\* seven layers feature_extraction.py writes.
FeatureCounts == {Len(self_feature_names), 7}
UnitRow(n, k) == [b \in 1..n |-> IF b = k THEN 1 ELSE 0]
\* The (X_train, y_train) a caller passes to train: one row of class 2; two
\* rows of the classes 1 and 2; two rows of the classes 2 and 3.
TrainingSets ==
    UNION { { [X |-> <<UnitRow(n, 1)>>, y |-> <<2>>],
              [X |-> <<UnitRow(n, 1), UnitRow(n, n)>>, y |-> <<1, 2>>],
              [X |-> <<UnitRow(n, 1), UnitRow(n, n)>>, y |-> <<2, 3>>] } : n \in FeatureCounts }
Call(name, err, labels) == [op |-> name, err |-> err, y |-> labels]

CLOff ==
    /\ cl_features = None /\ cl_heap = None /\ cl_model = 0 /\ cl_file = None
    /\ cl_predicted = None /\ cl_importance = None /\ cl_last = None
    /\ cl_ready = FALSE /\ cl_calls = 0

\* classifier = LandCoverClassifier(): one estimator, not fitted.
CLInit ==
    /\ \E s \in {(<<1, 2>>), (<<2, 1>>)}, n \in FeatureCounts :
       \E flat \in BoundedSeqs(n * s[1] * s[2], MaxTotalDN - 3) :
          cl_features = [b \in 1..n |-> [r \in 1..s[1] |-> [c \in 1..s[2] |->
              flat[(b - 1) * s[1] * s[2] + (r - 1) * s[2] + c]]]]
    /\ cl_heap = <<Unfitted>>
    /\ cl_model = 1
    /\ cl_file = None
    /\ cl_predicted = <<>>
    /\ cl_importance = None
    /\ cl_last = Call("__init__", "none", <<>>)
    /\ cl_ready = FALSE
    /\ cl_calls = 0

\* classifier.train(X_train, y_train): self.model.fit, on the object held.
Train ==
    /\ cl_calls < MaxCalls
    /\ \E t \in TrainingSets : \E fitted \in Fit(t.X, t.y) :
          /\ cl_heap' = [cl_heap EXCEPT ![cl_model] = fitted]
          /\ cl_last' = Call("train", "none", t.y)
    /\ cl_ready' = TRUE
    /\ cl_calls' = cl_calls + 1
    /\ UNCHANGED <<cl_features, cl_model, cl_file, cl_predicted, cl_importance, notCL>>

\* classifier.predict(features_path, output_path).
Predict ==
    /\ cl_calls < MaxCalls
    /\ LET err == PredictError(cl_heap[cl_model], cl_features)
       IN  /\ cl_last' = Call("predict", err, <<>>)
           /\ cl_predicted' =
                 IF err = "none"
                 THEN (IF cl_predicted = <<>> THEN <<>>
                       ELSE <<cl_predicted[Len(cl_predicted)]>>)
                      \o <<[model |-> cl_heap[cl_model],
                            grid |-> predict(cl_heap[cl_model], cl_features)]>>
                 ELSE cl_predicted
    /\ cl_calls' = cl_calls + 1
    /\ UNCHANGED <<cl_features, cl_heap, cl_model, cl_file, cl_importance, cl_ready, notCL>>

\* classifier.get_feature_importance().
GetFeatureImportance ==
    /\ cl_calls < MaxCalls
    /\ IF cl_heap[cl_model].fitted
       THEN /\ cl_importance' = get_feature_importance(cl_heap[cl_model])
            /\ cl_last' = Call("get_feature_importance", "none", <<>>)
       ELSE /\ cl_importance' = cl_importance
            /\ cl_last' = Call("get_feature_importance", "NotFittedError", <<>>)
    /\ cl_calls' = cl_calls + 1
    /\ UNCHANGED <<cl_features, cl_heap, cl_model, cl_file, cl_predicted, cl_ready, notCL>>

\* classifier.save_model(model_path): joblib.dump of the object held, fitted
\* or not.
SaveModel ==
    /\ cl_calls < MaxCalls
    /\ cl_file' = cl_heap[cl_model]
    /\ cl_last' = Call("save_model", "none", <<>>)
    /\ cl_calls' = cl_calls + 1
    /\ UNCHANGED <<cl_features, cl_heap, cl_model, cl_predicted, cl_importance, cl_ready, notCL>>

\* classifier.load_model(model_path): self.model becomes a new object.
LoadModel ==
    /\ cl_calls < MaxCalls
    /\ IF cl_file = None
       THEN /\ UNCHANGED <<cl_heap, cl_model, cl_ready>>
            /\ cl_last' = Call("load_model", "FileNotFoundError", <<>>)
       ELSE /\ cl_heap' = Append(cl_heap, cl_file)
            /\ cl_model' = Len(cl_heap) + 1
            /\ cl_ready' = TRUE
            /\ cl_last' = Call("load_model", "none", <<>>)
    /\ cl_calls' = cl_calls + 1
    /\ UNCHANGED <<cl_features, cl_file, cl_predicted, cl_importance, notCL>>

\* ============================================ the two denominator policies
\* The cells of the raster are multiples of 1 / scale: whole numbers, or
\* multiples of the epsilon constant.
RIScales == {1, EpsInv}

RIOff ==
    /\ ri_image = None /\ ri_strict = None /\ ri_eps = None /\ ri_pc = "off"

RIInit ==
    /\ \E s \in ImageShapes, scale \in RIScales :
       \E flat \in SignedSeqs(n_bands * s[1] * s[2], MaxTotalDN) :
          ri_image = Reshape(flat, 0, n_bands, s, scale)
    /\ ri_strict = None
    /\ ri_eps = None
    /\ ri_pc = "loaded"

\* change_detection.calculate_ndvi / _ndwi / _ndbi on the raster.
StrictIndices ==
    /\ ri_pc = "loaded"
    /\ ri_strict' = [ndvi |-> cd_calculate_ndvi(ri_image),
                     ndwi |-> cd_calculate_ndwi(ri_image),
                     ndbi |-> cd_calculate_ndbi(ri_image)]
    /\ ri_pc' = "strict"
    /\ UNCHANGED <<ri_image, ri_eps, notRI>>

\* feature_extraction.calculate_ndvi / _ndwi / _ndbi on the same operands.
EpsIndices ==
    /\ ri_pc = "strict"
    /\ ri_eps' = [ndvi |-> calculate_ndvi(ri_image[4], ri_image[3]),
                  ndwi |-> calculate_ndwi(ri_image[2], ri_image[4]),
                  ndbi |-> calculate_ndbi(ri_image[1], ri_image[4])]
    /\ ri_pc' = "both"
    /\ UNCHANGED <<ri_image, ri_strict, notRI>>

\* ============================================================ validation.py
\* class_names of validate_classification, in the order it gives them.
class_names == <<"Water", "Vegetation", "Built-up", "Barren">>

\* sklearn's unique_labels(y_true, y_pred): the distinct values of the two
\* vectors together, in increasing order.
RECURSIVE SortedSeq(_)
SortedSeq(S) ==
    IF S = {} THEN <<>>
    ELSE LET m == CHOOSE x \in S : \A y \in S : x <= y
         IN  <<m>> \o SortedSeq(S \ {m})
unique_labels(y_true, y_pred) ==
    SortedSeq({y_true[k] : k \in 1..Len(y_true)} \cup {y_pred[k] : k \in 1..Len(y_pred)})

\* confusion_matrix(y_true, y_pred), called without labels: one row and one
\* column per label of unique_labels, rows = y_true, columns = y_pred.
CountLabels(y_true, y_pred, t, p) ==
    Cardinality({k \in 1..Len(y_true) : y_true[k] = t /\ y_pred[k] = p})
confusion_matrix(y_true, y_pred) ==
    LET labels == unique_labels(y_true, y_pred)
    IN  [i \in 1..Len(labels) |-> [j \in 1..Len(labels) |->
            CountLabels(y_true, y_pred, labels[i], labels[j])]]

\* classification_report's ratios, zero_division = "warn": 0.0 (and a
\* warning) when the denominator is 0.
Ratio(n, d) == IF d = 0 THEN FromInt(0) ELSE Rat(n, d)
\* precision_recall_fscore_support for one label.
LabelMetrics(y_true, y_pred, l) ==
    LET tp == CountLabels(y_true, y_pred, l, l)
        n_pred == Cardinality({k \in 1..Len(y_pred) : y_pred[k] = l})
        n_true == Cardinality({k \in 1..Len(y_true) : y_true[k] = l})
    IN  ("precision" :> Ratio(tp, n_pred)) @@ ("recall" :> Ratio(tp, n_true))
        @@ ("f1-score" :> Ratio(2 * tp, n_pred + n_true)) @@ ("support" :> n_true)
RECURSIVE FSum(_)
FSum(s) == IF s = <<>> THEN FromInt(0) ELSE FAdd(s[1], FSum(Tail(s)))
\* The "macro avg" and "weighted avg" rows: np.average over the labels.
Average(per, weights, total) ==
    LET avg(m) == FDiv(FSum([i \in 1..Len(per) |->
                         FMul(per[i][m], FromInt(weights[i]))]), FromInt(total))
    IN  ("precision" :> avg("precision")) @@ ("recall" :> avg("recall"))
        @@ ("f1-score" :> avg("f1-score"))
        @@ ("support" :> SumSeq([i \in 1..Len(per) |-> per[i]["support"]]))
\* accuracy_score: the fraction of positions where the two vectors agree.
accuracy_score(y_true, y_pred) ==
    FDiv(FromInt(Cardinality({k \in 1..Len(y_true) : y_true[k] = y_pred[k]})),
         FromInt(Len(y_true)))

\* classification_report(y_true, y_pred, target_names, output_dict=True),
\* called without labels: it raises ValueError ("Number of classes, n, does
\* not match size of target_names") unless unique_labels has as many labels
\* as there are names, and gives the i-th name to the i-th label.
ReportError(y_true, y_pred, target_names) ==
    IF Len(unique_labels(y_true, y_pred)) # Len(target_names) THEN "ValueError" ELSE "none"
classification_report(y_true, y_pred, target_names) ==
    LET labels == unique_labels(y_true, y_pred)
        per == [i \in 1..Len(labels) |-> LabelMetrics(y_true, y_pred, labels[i])]
        support == [i \in 1..Len(labels) |-> per[i]["support"]]
        ones == [i \in 1..Len(labels) |-> 1]
    IN  [key \in {target_names[i] : i \in 1..Len(target_names)}
                    \cup {"accuracy", "macro avg", "weighted avg"} |->
            IF key = "accuracy" THEN accuracy_score(y_true, y_pred)
            ELSE IF key = "macro avg" THEN Average(per, ones, Len(labels))
            ELSE IF key = "weighted avg" THEN Average(per, support, Len(y_true))
            ELSE per[CHOOSE i \in 1..Len(target_names) : target_names[i] = key]]

\* validate_classification up to calculate_metrics: the exception, or "none".
\* A boolean mask of another length than the array it indexes is numpy's
\* IndexError.
ValidateError(prediction, ground_truth) ==
    LET y_true == Flatten(ground_truth)
        kept == Nonzero(y_true)
    IN  IF Len(Flatten(prediction)) # Len(y_true) THEN "IndexError"
        ELSE ReportError(Take(y_true, kept), Take(Flatten(prediction), kept), class_names)

\* The label values of the two rasters: background and the four classes.
VALabels == 0..n_classes
\* The shapes of the prediction and of the ground truth: equal, equal in
\* size only, and different in size.
VAShapePairs ==
    { <<s, s>> : s \in {(<<1, 1>>), (<<1, 2>>), (<<2, 1>>), (<<1, 3>>)} }
        \cup { <<(<<1, 2>>), (<<2, 1>>)>>, <<(<<1, 2>>), (<<1, 3>>)>> }

VAOff ==
    /\ va_prediction = None /\ va_ground_truth = None /\ va_y_pred = None
    /\ va_y_true = None /\ va_cm = None /\ va_report = None
    /\ va_pc = "off" /\ va_err = "none"

\* main(): the two rasters exist; validate_classification reads band 1 of each.
VAInit ==
    /\ \E st \in VAShapePairs :
          /\ va_prediction \in Grids(st[1], VALabels)
          /\ va_ground_truth \in Grids(st[2], VALabels)
    /\ va_y_pred = None /\ va_y_true = None /\ va_cm = None /\ va_report = None
    /\ va_pc = "loaded" /\ va_err = "none"

\* validate_classification(prediction_file, ground_truth_file, data_dir).
ValidateClassification ==
    /\ va_pc = "loaded"
    /\ LET y_true == Flatten(va_ground_truth)
           kept == Nonzero(y_true)
           err == ValidateError(va_prediction, va_ground_truth)
       IN  IF err = "IndexError"
           THEN /\ va_pc' = "error" /\ va_err' = err
                /\ UNCHANGED <<va_y_pred, va_y_true, va_cm, va_report>>
           ELSE /\ va_y_pred' = Take(Flatten(va_prediction), kept)
                /\ va_y_true' = Take(y_true, kept)
                /\ IF err = "none"
                   THEN /\ va_cm' = confusion_matrix(va_y_true', va_y_pred')
                        /\ va_report' = classification_report(va_y_true', va_y_pred', class_names)
                        /\ va_pc' = "done" /\ va_err' = err
                   ELSE /\ va_pc' = "error" /\ va_err' = err
                        /\ UNCHANGED <<va_cm, va_report>>
    /\ UNCHANGED <<va_prediction, va_ground_truth, notVA>>

\* ========================================================= preprocessing.py
\* image.min() and image.max(), over every cell of every band.
CellValues(image) ==
    {image[b][p[1]][p[2]] : b \in 1..Len(image), p \in Cells(ImageShape(image))}
ImageMin(image) ==
    CHOOSE x \in CellValues(image) : \A y \in CellValues(image) : ~FLt(y, x)
ImageMax(image) ==
    CHOOSE x \in CellValues(image) : \A y \in CellValues(image) : ~FGt(y, x)
\* normalize_image: (image - image.min()) / (image.max() - image.min()).
normalize_image(image) ==
    [b \in 1..Len(image) |-> [r \in 1..Len(image[b]) |-> [c \in 1..Len(image[b][r]) |->
        FDiv(FSub(image[b][r][c], ImageMin(image)),
             FSub(ImageMax(image), ImageMin(image)))]]]

\* The parameters of rasterio.warp.calculate_default_transform, in order.
calculate_default_transform_params ==
    <<"src_crs", "dst_crs", "width", "height", "left", "bottom", "right", "top",
      "gcps", "rpcs", "resolution", "dst_width", "dst_height">>
\* Python's binding of a call f(*positional, **keywords): the positional
\* arguments fill the parameters in order, and a keyword that names a
\* parameter already filled, or a positional argument too many, is TypeError.
BindError(params, n_positional, keywords) ==
    IF n_positional > Len(params) THEN "TypeError"
    ELSE IF \E i \in 1..n_positional : params[i] \in keywords THEN "TypeError"
    ELSE "none"
\* resample_image's call of calculate_default_transform: four arguments, then
\* *meta['transform'] (every element of the Affine), then resolution=.
ResampleError(meta) ==
    BindError(calculate_default_transform_params, 4 + Len(meta.transform), {"resolution"})

\* The pixel sizes of the rasters read, in metres.
PPResolutions == {target_resolution, 2 * target_resolution}
\* The band counts of the rasters preprocess_sentinel_image is given here.
PPBandCounts == {1, 2}

PPOff ==
    /\ pp_image = None /\ pp_meta = None /\ pp_normalized = None
    /\ pp_pc = "off" /\ pp_err = "none"

\* preprocess_sentinel_image after read_sentinel_image(input_path).
PPInit ==
    /\ \E s \in ImageShapes, scale \in FEScales, count \in PPBandCounts :
       \E flat \in BoundedSeqs(count * s[1] * s[2], MaxTotalDN) :
          pp_image = Reshape(flat, 0, count, s, scale)
    /\ \E res \in PPResolutions : pp_meta = Meta(pp_image, "float32", res)
    /\ pp_normalized = None
    /\ pp_pc = "loaded"
    /\ pp_err = "none"

\* normalized = normalize_image(image).
NormalizeImage ==
    /\ pp_pc = "loaded"
    /\ pp_normalized' = normalize_image(pp_image)
    /\ pp_pc' = "normalized"
    /\ UNCHANGED <<pp_image, pp_meta, pp_err, notPP>>

\* resampled, updated_meta = resample_image(normalized, meta, 10).  Its first
\* statement, the call of calculate_default_transform, unpacks the nine
\* elements of meta['transform'] into the positional parameters left ..
\* dst_height and then names resolution again: the call raises TypeError, so
\* no later statement of resample_image or of preprocess_sentinel_image runs.
ResampleImage ==
    /\ pp_pc = "normalized"
    /\ ResampleError(pp_meta) # "none"
    /\ pp_pc' = "error"
    /\ pp_err' = ResampleError(pp_meta)
    /\ UNCHANGED <<pp_image, pp_meta, pp_normalized, notPP>>

\* ================================================= simple_classification.py
years == <<2017, 2023>>
\* src.read(out_shape=(count, h, w), resampling=Resampling.nearest), band 1:
\* a decimated read.  Cell (r, c) of the result is the cell of the raster
\* under the centre of that cell of the (h, w) grid laid over the raster.
NearestRead(g, s) ==
    [r \in 1..s[1] |-> [c \in 1..s[2] |->
        g[(((2 * r - 1) * Len(g)) \div (2 * s[1])) + 1]
         [(((2 * c - 1) * Len(g[1])) \div (2 * s[2])) + 1]]]
\* load_and_prepare_data: <<X, y, landcover>>.  X's rows are the pixels of
\* sentinel (reshape(bands, n).T), y the cells of the landcover read onto
\* sentinel's shape, both without the pixels whose label is 0.
load_and_prepare_data(sentinel, landcover_file) ==
    LET landcover == NearestRead(landcover_file, ImageShape(sentinel))
        mask == Nonzero(Flatten(landcover))
    IN  <<Take(PixelRows(sentinel), mask), Take(Flatten(landcover), mask), landcover>>
\* clf.fit(X_train, y_train): Fit's forests; for rows that no single column
\* separates, a forest whose vote is one of the classes of y_train.
FitForest(X, y) ==
    IF Fit(X, y) # {} THEN Fit(X, y)
    ELSE {[fitted |-> TRUE, n_features_in |-> Len(X[1]), classes |-> Classes(y),
           feature |-> 0, lo |-> c, hi |-> c] : c \in Classes(y)}
\* train_classifier: the exception it raises, or "none" (train_test_split
\* refuses a training subset that would be empty).
TrainError(y) == IF TrainSize(Len(y)) = 0 THEN "ValueError" ELSE "none"
\* The names bound at module level of simple_classification.py, and the
\* names plot_classification reads without binding them.
ModuleGlobals ==
    {"rasterio", "np", "RandomForestClassifier", "plt", "os", "Resampling",
     "load_and_prepare_data", "train_classifier", "classify_image",
     "plot_classification", "main"}
PlotFreeNames == {"plt", "clf", "X_train", "y_train", "X_test", "y_test"}
PlotError == IF PlotFreeNames \subseteq ModuleGlobals THEN "none" ELSE "NameError"

\* The shapes of the Sentinel-2 rasters and of the land-cover raster.
SCShapes == {(<<1, 2>>), (<<2, 1>>)}
LandcoverShapes == {(<<1, 1>>), (<<1, 2>>), (<<2, 1>>), (<<2, 2>>)}
SCLabels == 0..2
SCCells == 0..1
Exists(y) == sc_sentinel[y] # None /\ sc_landcover # None

SCOff ==
    /\ sc_sentinel = None /\ sc_landcover = None /\ sc_rng = None /\ sc_year = 0
    /\ sc_aligned = None /\ sc_X = None /\ sc_y = None /\ sc_clf = None
    /\ sc_results = None /\ sc_plots = {} /\ sc_pc = "off" /\ sc_err = "none"

\* main() before the loop: the files of the data directory.
SCInit ==
    /\ \E s \in SCShapes, t \in LandcoverShapes :
          /\ sc_sentinel \in [1..Len(years) ->
                 {[b \in 1..1 |-> g] : g \in Grids(s, SCCells)} \cup {None}]
          /\ sc_landcover \in Grids(t, SCLabels) \cup {None}
          /\ sc_rng \in Perms(IF sc_landcover = None THEN 0
                               ELSE Len(Nonzero(Flatten(NearestRead(sc_landcover, s)))))
    /\ sc_year = 1
    /\ sc_aligned = None /\ sc_X = None /\ sc_y = None /\ sc_clf = None
    /\ sc_results = [y \in 1..Len(years) |-> None]
    /\ sc_plots = {}
    /\ sc_pc = "loop"
    /\ sc_err = "none"

\* for year in years: the two os.path.exists tests, `continue` on a miss.
BeginYear ==
    /\ sc_pc = "loop" /\ sc_year <= Len(years)
    /\ IF Exists(sc_year)
       THEN sc_pc' = "load" /\ sc_year' = sc_year
       ELSE sc_pc' = "loop" /\ sc_year' = sc_year + 1
    /\ UNCHANGED <<sc_sentinel, sc_landcover, sc_rng, sc_aligned, sc_X, sc_y, sc_clf,
                   sc_results, sc_plots, sc_err, notSC>>

\* X, y, meta = load_and_prepare_data(sentinel_file, landcover_file).
LoadAndPrepareData ==
    /\ sc_pc = "load"
    /\ LET loaded == load_and_prepare_data(sc_sentinel[sc_year], sc_landcover)
       IN  sc_X' = loaded[1] /\ sc_y' = loaded[2] /\ sc_aligned' = loaded[3]
    /\ sc_pc' = "train"
    /\ UNCHANGED <<sc_sentinel, sc_landcover, sc_rng, sc_year, sc_clf, sc_results,
                   sc_plots, sc_err, notSC>>

\* clf = train_classifier(X, y): train_test_split, then fit on the training
\* rows.
TrainClassifier ==
    /\ sc_pc = "train"
    /\ IF TrainError(sc_y) # "none"
       THEN /\ sc_pc' = "error" /\ sc_err' = "ValueError" /\ sc_clf' = sc_clf
       ELSE /\ LET split == train_test_split(sc_X, sc_y, sc_rng)
               IN  sc_clf' \in FitForest(split[1], split[3])
            /\ sc_pc' = "classify" /\ sc_err' = sc_err
    /\ UNCHANGED <<sc_sentinel, sc_landcover, sc_rng, sc_year, sc_aligned, sc_X, sc_y,
                   sc_results, sc_plots, notSC>>

\* predictions = classify_image(clf, sentinel_file, output_file): the grid
\* is written to classification_result_<year>.tif.
ClassifyImage ==
    /\ sc_pc = "classify"
    /\ sc_results' = [sc_results EXCEPT ![sc_year] = predict(sc_clf, sc_sentinel[sc_year])]
    /\ sc_pc' = "plot"
    /\ UNCHANGED <<sc_sentinel, sc_landcover, sc_rng, sc_year, sc_aligned, sc_X, sc_y,
                   sc_clf, sc_plots, sc_err, notSC>>

\* plot_classification(predictions, plot_file), then the class distribution
\* and the next year.  The f-string of plt.figtext reads clf, X_train,
\* y_train, X_test and y_test, which are bound in no scope it can see:
\* NameError, before plt.savefig.
PlotClassification ==
    /\ sc_pc = "plot"
    /\ IF PlotError = "none"
       THEN /\ sc_plots' = sc_plots \cup {sc_year}
            /\ sc_year' = sc_year + 1
            /\ sc_pc' = "loop" /\ sc_err' = sc_err
       ELSE /\ sc_pc' = "error" /\ sc_err' = PlotError
            /\ UNCHANGED <<sc_plots, sc_year>>
    /\ UNCHANGED <<sc_sentinel, sc_landcover, sc_rng, sc_aligned, sc_X, sc_y, sc_clf,
                   sc_results, notSC>>

\* print("\nDone! All years processed.")
Finish ==
    /\ sc_pc = "loop" /\ sc_year > Len(years)
    /\ sc_pc' = "done"
    /\ UNCHANGED <<sc_sentinel, sc_landcover, sc_rng, sc_year, sc_aligned, sc_X, sc_y,
                   sc_clf, sc_results, sc_plots, sc_err, notSC>>

\* ------------------------------------------------------- specifications
\* temporal_analysis.py alone.
InitTA == TAInit /\ CDOff /\ RIOff /\ FEOff /\ PTOff /\ CLOff /\ VAOff /\ PPOff /\ SCOff
NextTA == CalculateChanges \/ PlotChangeMap \/ PrintSummary
SpecTA == InitTA /\ [][NextTA]_vars

\* change_detection.py alone.
InitCD == CDInit /\ TAOff /\ RIOff /\ FEOff /\ PTOff /\ CLOff /\ VAOff /\ PPOff /\ SCOff
NextCD == DetectChanges \/ AreaStats
SpecCD == InitCD /\ [][NextCD]_vars

\* Either change detector.
InitChange == InitTA \/ InitCD
NextChange == CalculateChanges \/ PlotChangeMap \/ PrintSummary \/ DetectChanges \/ AreaStats
SpecChange == InitChange /\ [][NextChange]_vars

\* The ratio indices under both policies.
InitRI == RIInit /\ TAOff /\ CDOff /\ FEOff /\ PTOff /\ CLOff /\ VAOff /\ PPOff /\ SCOff
NextRI == StrictIndices \/ EpsIndices
SpecRI == InitRI /\ [][NextRI]_vars

\* feature_extraction.py alone.
InitFE == FEInit /\ TAOff /\ CDOff /\ RIOff /\ PTOff /\ CLOff /\ VAOff /\ PPOff /\ SCOff
NextFE == ExtractFeatures \/ SaveFeatures
SpecFE == InitFE /\ [][NextFE]_vars

\* LandCoverClassifier.prepare_training_data alone.
InitPT == PTInit /\ TAOff /\ CDOff /\ RIOff /\ FEOff /\ CLOff /\ VAOff /\ PPOff /\ SCOff
NextPT == PrepareTrainingData
SpecPT == InitPT /\ [][NextPT]_vars

\* One LandCoverClassifier, its methods called in any order.
InitCL == CLInit /\ TAOff /\ CDOff /\ RIOff /\ FEOff /\ PTOff /\ VAOff /\ PPOff /\ SCOff
NextCL == Train \/ Predict \/ GetFeatureImportance \/ SaveModel \/ LoadModel
SpecCL == InitCL /\ [][NextCL]_vars

\* validation.py: validate_classification on one pair of rasters.
InitVA == VAInit /\ TAOff /\ CDOff /\ RIOff /\ FEOff /\ PTOff /\ CLOff /\ PPOff /\ SCOff
NextVA == ValidateClassification
SpecVA == InitVA /\ [][NextVA]_vars

\* preprocessing.py: preprocess_sentinel_image on one raster.
InitPP == PPInit /\ TAOff /\ CDOff /\ RIOff /\ FEOff /\ PTOff /\ CLOff /\ VAOff /\ SCOff
NextPP == NormalizeImage \/ ResampleImage
SpecPP == InitPP /\ [][NextPP]_vars

\* simple_classification.py: main().  The script is one thread: a statement
\* that can run does run.
InitSC == SCInit /\ TAOff /\ CDOff /\ RIOff /\ FEOff /\ PTOff /\ CLOff /\ VAOff /\ PPOff
NextSC == BeginYear \/ LoadAndPrepareData \/ TrainClassifier \/ ClassifyImage
              \/ PlotClassification \/ Finish
SpecSC == InitSC /\ [][NextSC]_vars /\ WF_vars(NextSC)

\* Either grid alignment: the read onto the Sentinel-2 shape of
\* simple_classification.py, or resample_image of preprocessing.py.
InitAlign == InitSC \/ InitPP
NextAlign == BeginYear \/ LoadAndPrepareData \/ TrainClassifier \/ ClassifyImage
                 \/ PlotClassification \/ Finish \/ NormalizeImage \/ ResampleImage
SpecAlign == InitAlign /\ [][NextAlign]_vars

\* ============================================================ properties
\* ---- categorical change (temporal_analysis.py)
SameShape == Shape(class_2017) = Shape(class_2023)
\* A Label Grid: 0 is background, 1..n_classes are the class identifiers.
IsLabelGrid(g) == \A p \in Cells(Shape(g)) : g[p[1]][p[2]] \in 0..n_classes
LabelPair == SameShape /\ IsLabelGrid(class_2017) /\ IsLabelGrid(class_2023)
MatrixReturned == ta_pc \in {"matrix", "mapped", "done"}
BothLabelled ==
    {p \in Cells(Shape(class_2017)) :
        class_2017[p[1]][p[2]] # 0 /\ class_2023[p[1]][p[2]] # 0}
Unchanged ==
    {p \in Cells(Shape(class_2017)) :
        /\ class_2017[p[1]][p[2]] \in 1..n_classes
        /\ class_2017[p[1]][p[2]] = class_2023[p[1]][p[2]]}

\* C1: for two label grids of one shape, the sum of the change matrix is the
\* number of positions where both grids hold a non-background label.
C1_MatrixSumIsComparableCount ==
    (MatrixReturned /\ LabelPair) =>
        MatrixSum(change_matrix) = Cardinality(BothLabelled)
\* A pair with one comparable position and one position that is background
\* in 2017 only.
C1_Witness ==
    /\ ta_pc = "matrix" /\ LabelPair
    /\ MatrixSum(change_matrix) = 1
    /\ \E p \in Cells(Shape(class_2017)) :
          class_2017[p[1]][p[2]] = 0 /\ class_2023[p[1]][p[2]] # 0

\* C2: for two label grids of one shape, the trace of the change matrix is
\* the number of positions that hold the same class (1..4) at both times;
\* a grid compared against itself has no off-diagonal entry.
C2_TraceIsUnchangedCount ==
    (MatrixReturned /\ LabelPair) =>
        /\ MatrixTrace(change_matrix) = Cardinality(Unchanged)
        /\ class_2017 = class_2023 =>
              \A i, j \in 1..n_classes : i # j => change_matrix[i][j] = 0
\* One unchanged position and one transition in the same pair.
C2_Witness ==
    /\ ta_pc = "matrix" /\ LabelPair
    /\ MatrixTrace(change_matrix) = 1
    /\ MatrixSum(change_matrix) = 2

\* C3: the percentage of area changed is (total - trace) / total * 100, a
\* number in 0..100, and 0 for a grid compared against itself.
C3_PercentDefined ==
    (ta_pc = "done" /\ LabelPair) =>
        /\ IsNum(summary.percent)
        /\ summary.percent.n * summary.total
              = (summary.total - MatrixTrace(change_matrix)) * 100 * summary.percent.d
        /\ 0 <= summary.percent.n /\ summary.percent.n <= 100 * summary.percent.d
        /\ class_2017 = class_2023 => summary.percent.n = 0

\* ---- continuous change (change_detection.py)
SameImageShape == ImageShape(image_2018) = ImageShape(image_2023)
\* The two bands (a, b) of an index (a - b) / (a + b), as the source reads them.
OperandBands(i) ==
    IF i = "ndvi" THEN <<4, 3>> ELSE IF i = "ndwi" THEN <<2, 4>> ELSE <<1, 4>>
\* x is the strict-masking index of the numbers a and b.
IsStrictIndex(x, a, b) ==
    IF FAdd(a, b).n = 0 THEN IsNaN(x) ELSE IsNum(x) /\ FMul(x, FAdd(a, b)) = FSub(a, b)

\* C4: both change detectors fail with ShapeMismatchError when the two input
\* grids differ in width or height.
C4_ShapeMismatchError ==
    /\ (ta_pc \notin {"off", "loaded"} /\ ~SameShape) =>
          (ta_pc = "error" /\ ta_err = "ShapeMismatchError")
    /\ (cd_pc \notin {"off", "loaded"} /\ ~SameImageShape) =>
          (cd_pc = "error" /\ cd_err = "ShapeMismatchError")

\* C5: for each index and each cell of two rasters of one shape, the two
\* index grids returned are the strict indices of the rasters, the change is
\* the 2023 index minus the 2018 index, and the change is nan where either
\* index is nan.
C5_ChangeIsDifference ==
    (cd_pc \in {"detected", "stats"} /\ SameImageShape) =>
        \A i \in IndexNames : \A p \in Cells(ImageShape(image_2018)) :
            LET ab == OperandBands(i)
                i18 == changes[i][1][p[1]][p[2]]
                i23 == changes[i][2][p[1]][p[2]]
                ch == changes[i][3][p[1]][p[2]]
            IN  /\ IsStrictIndex(i18, image_2018[ab[1]][p[1]][p[2]], image_2018[ab[2]][p[1]][p[2]])
                /\ IsStrictIndex(i23, image_2023[ab[1]][p[1]][p[2]], image_2023[ab[2]][p[1]][p[2]])
                /\ (IsNaN(i18) \/ IsNaN(i23)) => IsNaN(ch)
                /\ (IsNum(i18) /\ IsNum(i23)) =>
                      /\ IsNum(ch)
                      /\ ch.n * i18.d * i23.d = (i23.n * i18.d - i18.n * i23.d) * ch.d
\* One cell whose NDVI is nan in 2018 and a number in 2023, and one cell whose
\* NDVI changed by a non-zero amount.
C5_Witness ==
    /\ cd_pc = "detected" /\ SameImageShape
    /\ \E p \in Cells(ImageShape(image_2018)) :
          IsNaN(changes.ndvi[1][p[1]][p[2]]) /\ IsNum(changes.ndvi[2][p[1]][p[2]])
    /\ \E p \in Cells(ImageShape(image_2018)) :
          IsNum(changes.ndvi[3][p[1]][p[2]]) /\ changes.ndvi[3][p[1]][p[2]].n # 0

\* C6: a cell counts as positive change exactly when it is a number above
\* the threshold and as negative change exactly when it is a number below
\* minus the threshold; each area is the count times px * py / 1e6.
Above(x, t) == IsNum(x) /\ x.n * t.d > t.n * x.d
Below(x, t) == IsNum(x) /\ x.n * t.d < (-t.n) * x.d
AreaIs(a, count, px, py) == IsNum(a) /\ a.n * SqMetresPerKm2 = count * px * py * a.d
C6_AreaStats ==
    (cd_pc = "stats") =>
        \A i \in IndexNames :
            LET ch == changes[i][3]
                t == area_stats.threshold
                npos == Cardinality({p \in Cells(Shape(ch)) : Above(ch[p[1]][p[2]], t)})
                nneg == Cardinality({p \in Cells(Shape(ch)) : Below(ch[p[1]][p[2]], t)})
            IN  /\ AreaIs(area_stats.areas[i][1], npos, area_stats.pixel_size_x, area_stats.pixel_size_y)
                /\ AreaIs(area_stats.areas[i][2], nneg, area_stats.pixel_size_x, area_stats.pixel_size_y)
\* A change grid with one cell exactly at the threshold and one nan cell.
C6_Witness ==
    /\ cd_pc = "stats" /\ SameImageShape
    /\ \E i \in IndexNames :
          /\ \E p \in Cells(Shape(changes[i][3])) :
                changes[i][3][p[1]][p[2]] = area_stats.threshold
          /\ \E p \in Cells(Shape(changes[i][3])) : IsNaN(changes[i][3][p[1]][p[2]])
          /\ area_stats.areas[i][1] = FromInt(0)

\* ---- the two denominator policies
RIOperand(i, k, p) == ri_image[OperandBands(i)[k]][p[1]][p[2]]

\* C7: at every cell whose denominator a + b is exactly zero, the strict
\* result is nan and the epsilon-stabilized result is the finite value 0.0.
C7_ZeroDenominator ==
    (ri_pc = "both") =>
        \A i \in IndexNames : \A p \in Cells(ImageShape(ri_image)) :
            FAdd(RIOperand(i, 1, p), RIOperand(i, 2, p)).n = 0 =>
                /\ IsNaN(ri_strict[i][p[1]][p[2]])
                /\ ri_eps[i][p[1]][p[2]] = FromInt(0)

\* C8: at every cell whose denominator a + b is not zero, the denominator
\* a + b + 1e-6 is not zero either, both results are numbers, and they
\* differ by strict * 1e-6 / (a + b + 1e-6), a multiple of epsilon.
C8_PoliciesAgree ==
    (ri_pc = "both") =>
        \A i \in IndexNames : \A p \in Cells(ImageShape(ri_image)) :
            LET denominator == FAdd(RIOperand(i, 1, p), RIOperand(i, 2, p))
                stabilized == FAdd(denominator, Eps)
                strict == ri_strict[i][p[1]][p[2]]
                eps == ri_eps[i][p[1]][p[2]]
            IN  denominator.n # 0 =>
                    /\ stabilized.n # 0
                    /\ IsNum(strict) /\ IsNum(eps)
                    /\ FMul(FSub(strict, eps), stabilized) = FMul(strict, Eps)

\* ---- the feature stack (feature_extraction.py)
Band(b, p) == sentinel_data[b][p[1]][p[2]]
Layer(k, p) == feature_stack[k][p[1]][p[2]]
\* The argument of MSAVI's square root, expanded: 4 nir^2 - 4 nir + 1 + 8 red.
MsaviArg(nir, red) ==
    FAdd(FSub(FMul(FromInt(4), FMul(nir, nir)), FMul(FromInt(4), nir)),
         FAdd(FromInt(1), FMul(FromInt(8), red)))
\* y is the closed form (2 nir + 1 - sqrt(arg)) / 2: the root 2 nir + 1 - 2 y
\* is not negative and its square is arg.
IsMsavi(y, nir, red) ==
    LET a == FAdd(FAdd(nir, nir), FromInt(1))
        arg == MsaviArg(nir, red)
    IN  IF IsNum(y)
        THEN LET root == FSub(a, FAdd(y, y))
             IN  root.n >= 0 /\ FMul(root, root) = arg
        ELSE /\ y.k = "surd" /\ y.n = a /\ y.d = 2 /\ y.rad = arg
             /\ ~(IsSquare(arg.n) /\ IsSquare(arg.d))

\* C9: at every cell where (2 nir + 1)^2 - 8 (nir - red) is negative the
\* MSAVI layer is nan, and extract_features has returned (no error); at
\* every other cell the layer is the closed-form value.
C9_MsaviGuard ==
    (fe_pc = "extracted") =>
        \A p \in Cells(ImageShape(sentinel_data)) :
            IF MsaviArg(Band(4, p), Band(3, p)).n < 0
            THEN IsNaN(Layer(5, p))
            ELSE IsMsavi(Layer(5, p), Band(4, p), Band(3, p))
\* One cell with a negative argument and one with a rational closed form
\* that is not zero.
C9_Witness ==
    /\ fe_pc = "extracted"
    /\ \E p \in Cells(ImageShape(sentinel_data)) :
          MsaviArg(Band(4, p), Band(3, p)).n < 0 /\ IsNaN(Layer(5, p))
    /\ \E p \in Cells(ImageShape(sentinel_data)) :
          IsNum(Layer(5, p)) /\ Layer(5, p).n # 0

RequiredIndices == <<"NDVI", "NDWI", "NDBI", "SAVI", "MSAVI", "EVI", "BSI">>
\* y is num / den (den is never zero for the cells of the model's rasters).
IsQuotient(y, num, den) == den.n # 0 /\ IsNum(y) /\ FMul(y, den) = num
\* y is the index called name at the cell whose six band values are b.
IsIndex(name, y, b) ==
    LET blue == b[1]
        green == b[2]
        red == b[3]
        nir == b[4]
        swir1 == b[5]
    IN  CASE name = "NDVI" -> IsQuotient(y, FSub(nir, red), FAdd(FAdd(nir, red), Eps))
          [] name = "NDWI" -> IsQuotient(y, FSub(green, nir), FAdd(FAdd(green, nir), Eps))
          [] name = "NDBI" -> IsQuotient(y, FSub(swir1, nir), FAdd(FAdd(swir1, nir), Eps))
          [] name = "SAVI" ->
                IsQuotient(y, FMul(Rat(3, 2), FSub(nir, red)),
                           FAdd(FAdd(nir, red), FAdd(Rat(1, 2), Eps)))
          [] name = "MSAVI" ->
                IF MsaviArg(nir, red).n < 0 THEN IsNaN(y) ELSE IsMsavi(y, nir, red)
          [] name = "EVI" ->
                IsQuotient(y, FMul(Rat(5, 2), FSub(nir, red)),
                           FAdd(FSub(FAdd(nir, FMul(FromInt(6), red)), FMul(Rat(15, 2), blue)),
                                FAdd(FromInt(1), Eps)))
          [] name = "BSI" ->
                IsQuotient(y, FSub(FAdd(swir1, red), FAdd(nir, blue)),
                           FAdd(FAdd(FAdd(swir1, red), FAdd(nir, blue)), Eps))
          [] OTHER -> FALSE

\* C10: the stack has one layer per required index, in the order NDVI, NDWI,
\* NDBI, SAVI, MSAVI, EVI, BSI; every layer has the shape of the input bands;
\* the names are as many as the layers and layer k is the index names[k].
C10_FeatureStackOrder ==
    (fe_pc = "extracted") =>
        /\ feature_names = RequiredIndices
        /\ Len(feature_stack) = Len(feature_names)
        /\ \A k \in 1..Len(feature_stack) :
              /\ Shape(feature_stack[k]) = ImageShape(sentinel_data)
              /\ \A p \in Cells(ImageShape(sentinel_data)) :
                    IsIndex(feature_names[k], Layer(k, p),
                            [b \in 1..n_feature_bands |-> Band(b, p)])
\* A raster that is not square, with a cell where SAVI and MSAVI differ.
C10_Witness ==
    /\ fe_pc = "extracted"
    /\ ImageShape(sentinel_data) = <<1, 2>>
    /\ \E p \in Cells(ImageShape(sentinel_data)) :
          IsNum(Layer(4, p)) /\ IsNum(Layer(5, p)) /\ Layer(4, p) # Layer(5, p)

\* C11: extract_features fails with MissingBandError on every raster that
\* lacks one of the six bands it requires, and returns nothing then.
C11_MissingBandError ==
    (fe_pc \notin {"off", "loaded"} /\ Len(sentinel_data) < n_feature_bands) =>
        /\ fe_pc = "error" /\ fe_err = "MissingBandError"
        /\ feature_stack = None /\ feature_names = None

\* ---- training data (classification.py)
PTSameShape == ImageShape(pt_features) = Shape(pt_labels)
PTReturned == pt_pc \in {"split", "resplit"}
\* The feature row of the pixel at position p, and the labelled pixels.
RowAt(p) == [b \in 1..Len(pt_features) |-> pt_features[b][p[1]][p[2]]]
Labelled == {p \in Cells(Shape(pt_labels)) : pt_labels[p[1]][p[2]] # 0}
\* How many entries of the parallel arrays X, y are the row x with the label l.
CountOf(X, y, x, l) == Cardinality({i \in 1..Len(y) : X[i] = x /\ y[i] = l})

\* C12: for a features and a labels raster of one shape, the training and the
\* evaluation subset returned hold, together and each once, exactly the
\* (row, label) pairs of the pixels whose label is not 0; the evaluation
\* subset has ceil(n / 5) of the n rows and the training subset the rest;
\* a second call on the same rasters returns the same subsets.
C12_SplitPartition ==
    (PTReturned /\ PTSameShape) =>
        LET X_train == pt_split[1]
            X_test == pt_split[2]
            y_train == pt_split[3]
            y_test == pt_split[4]
            n == Cardinality(Labelled)
        IN  /\ Len(X_train) = Len(y_train) /\ Len(X_test) = Len(y_test)
            /\ Len(y_train) + Len(y_test) = n
            /\ \A i \in 1..Len(y_train) : y_train[i] # 0
            /\ \A i \in 1..Len(y_test) : y_test[i] # 0
            /\ \A p \in Labelled :
                  CountOf(X_train, y_train, RowAt(p), pt_labels[p[1]][p[2]])
                    + CountOf(X_test, y_test, RowAt(p), pt_labels[p[1]][p[2]])
                  = Cardinality({q \in Labelled :
                        RowAt(q) = RowAt(p) /\ pt_labels[q[1]][q[2]] = pt_labels[p[1]][p[2]]})
            /\ 5 * Len(y_test) >= n /\ 5 * (Len(y_test) - 1) < n
            /\ pt_pc = "resplit" => pt_split = pt_first
\* Five labelled pixels split 4 to 1 by a permutation that is not the
\* identity, with both classes in the training subset, returned twice.
C12_Witness ==
    /\ pt_pc = "resplit" /\ PTSameShape
    /\ Len(pt_split[3]) = 4 /\ Len(pt_split[4]) = 1
    /\ \E i, j \in 1..4 : pt_split[3][i] # pt_split[3][j]
    /\ \E i, j \in 1..4 : pt_split[1][i] # pt_split[1][j]
    /\ pt_rng[1] # 1

\* C13: prepare_training_data fails with ShapeMismatchError whenever the
\* features and the labels raster differ in width or height.
C13_ShapeMismatchError ==
    (pt_pc \notin {"off", "loaded"} /\ ~PTSameShape) =>
        (pt_pc = "error" /\ pt_err = "ShapeMismatchError")

\* ---- the classifier (classification.py)
Held == cl_heap[cl_model]
CLRowAt(p) == [b \in 1..Len(cl_features) |-> cl_features[b][p[1]][p[2]]]
RECURSIVE SumScores(_)
SumScores(d) == IF d = <<>> THEN 0 ELSE d[1][2] + SumScores(Tail(d))

\* C14: train on labels of fewer than 2 distinct classes fails with
\* InsufficientClassesError and leaves an untrained classifier untrained.
C14_InsufficientClasses ==
    (cl_last.op = "train" /\ Cardinality(Classes(cl_last.y)) < 2) =>
        /\ cl_last.err = "InsufficientClassesError"
        /\ cl_calls = 1 => ~Held.fitted

\* C15: predict on a trained model and a feature stack of the model's layer
\* count returns a grid of the stack's height and width; the class at a
\* pixel is the class the model gives to the feature values at that pixel
\* alone; two calls with the same model return identical grids.
C15_PredictPerPixel ==
    /\ (cl_last.op = "predict" /\ Held.fitted /\ Len(cl_features) = Held.n_features_in) =>
          (cl_last.err = "none" /\ cl_predicted # <<>>)
    /\ \A i \in 1..Len(cl_predicted) :
          /\ Shape(cl_predicted[i].grid) = ImageShape(cl_features)
          /\ \A p \in Cells(ImageShape(cl_features)) :
                cl_predicted[i].grid[p[1]][p[2]]
                    = PredictRow(cl_predicted[i].model, CLRowAt(p))
          /\ \A j \in 1..Len(cl_predicted) :
                cl_predicted[i].model = cl_predicted[j].model =>
                    cl_predicted[i].grid = cl_predicted[j].grid
\* Two calls with one model on a stack that is 2 high and 1 wide, whose two
\* pixels get different classes.
C15_Witness ==
    /\ cl_last.op = "predict" /\ cl_last.err = "none"
    /\ Len(cl_predicted) = 2
    /\ cl_predicted[1].model = cl_predicted[2].model
    /\ ImageShape(cl_features) = <<2, 1>>
    /\ cl_predicted[2].grid[1][1] # cl_predicted[2].grid[2][1]

\* C16: get_feature_importance on a trained model returns one entry per
\* feature column of the training rows, with scores that are not negative
\* and add up to 1.
C16_ImportancePerFeature ==
    (cl_last.op = "get_feature_importance" /\ cl_last.err = "none") =>
        /\ Len(cl_importance) = Held.n_features_in
        /\ \A i \in 1..Len(cl_importance) : cl_importance[i][2] >= 0
        /\ SumScores(cl_importance) = 1

\* C17: get_feature_importance and predict fail with NotTrainedError, and
\* return nothing, before any train or load_model has returned; after one
\* has, they succeed.
C17_NotTrainedError ==
    (cl_last.op \in {"get_feature_importance", "predict"}) =>
        IF cl_ready
        THEN cl_last.err = "none"
        ELSE /\ cl_last.err = "NotTrainedError"
             /\ cl_importance = None /\ cl_predicted = <<>>

\* C18: a trained classifier stays trained, and no call changes an
\* estimator that is already fitted: a second train leaves the previously
\* trained model as it was.
C18_NoRetrainInPlace ==
    [][/\ Held.fitted => cl_heap'[cl_model'].fitted
       /\ \A id \in 1..Len(cl_heap) : cl_heap[id].fitted => cl_heap'[id] = cl_heap[id]]_vars

\* ---- accuracy assessment (validation.py)
VASameShape == Shape(va_prediction) = Shape(va_ground_truth)
VALabelled ==
    {p \in Cells(Shape(va_ground_truth)) : va_ground_truth[p[1]][p[2]] # 0}
VAPairs(t, p) ==
    Cardinality({q \in VALabelled : /\ va_ground_truth[q[1]][q[2]] = t
                                    /\ va_prediction[q[1]][q[2]] = p})
VAAgree ==
    Cardinality({q \in VALabelled :
        va_prediction[q[1]][q[2]] = va_ground_truth[q[1]][q[2]]})

\* C19: for two rasters of one shape with a labelled ground-truth pixel, the
\* Validator keeps exactly the positions whose ground truth is not 0, the
\* confusion matrix adds up to their number, and the accuracy it reports is
\* trace / sum, the fraction of kept positions where the two rasters agree.
C19_AccuracyIsTraceOverSum ==
    (va_pc \notin {"off", "loaded"} /\ VASameShape /\ VALabelled # {}) =>
        /\ va_err = "none"
        /\ Len(va_y_true) = Cardinality(VALabelled)
        /\ Len(va_y_pred) = Cardinality(VALabelled)
        /\ \A t, p \in VALabels : CountLabels(va_y_true, va_y_pred, t, p) = VAPairs(t, p)
        /\ MatrixSum(va_cm) = Cardinality(VALabelled)
        /\ va_report["accuracy"] = Rat(MatrixTrace(va_cm), MatrixSum(va_cm))
        /\ va_report["accuracy"] = Rat(VAAgree, Cardinality(VALabelled))

\* The harmonic mean of two ratios, 0 when they add up to 0.
HarmonicMean(x, y) ==
    IF FAdd(x, y) = FromInt(0) THEN FromInt(0)
    ELSE FDiv(FMul(FromInt(2), FMul(x, y)), FAdd(x, y))
\* C20: for two rasters of one shape with a labelled ground-truth pixel, the
\* Validator returns a 4 x 4 confusion matrix whose cell (i, j) counts the
\* kept positions of ground-truth class i predicted as class j, and for each
\* of Water, Vegetation, Built-up, Barren (classes 1..4) the precision
\* TP / (TP + FP), the recall TP / (TP + FN) and their harmonic mean, each 0
\* when its denominator is 0.
C20_PerClassMetrics ==
    (va_pc \notin {"off", "loaded"} /\ VASameShape /\ VALabelled # {}) =>
        /\ va_err = "none"
        /\ Len(va_cm) = n_classes
        /\ \A i \in 1..n_classes : Len(va_cm[i]) = n_classes
        /\ \A i, j \in 1..n_classes : va_cm[i][j] = VAPairs(i, j)
        /\ \A i \in 1..n_classes :
              LET tp == VAPairs(i, i)
                  predicted == SumSeq([t \in 1..(n_classes + 1) |-> VAPairs(t - 1, i)])
                  actual == SumSeq([p \in 1..(n_classes + 1) |-> VAPairs(i, p - 1)])
                  precision == IF predicted = 0 THEN FromInt(0) ELSE Rat(tp, predicted)
                  recall == IF actual = 0 THEN FromInt(0) ELSE Rat(tp, actual)
              IN  /\ va_report[class_names[i]]["precision"] = precision
                  /\ va_report[class_names[i]]["recall"] = recall
                  /\ va_report[class_names[i]]["f1-score"] = HarmonicMean(precision, recall)

\* C21: the Validator fails with ShapeMismatchError whenever the prediction
\* and the ground truth differ in width or height, and computes no metrics.
C21_ValidatorShapeMismatch ==
    (va_pc \notin {"off", "loaded"} /\ ~VASameShape) =>
        /\ va_pc = "error" /\ va_err = "ShapeMismatchError"
        /\ va_cm = None /\ va_report = None

\* C22: when every ground-truth cell is 0, so that nothing remains after the
\* mask, the Validator fails with EmptyLabelSetError and produces neither a
\* confusion matrix nor a report.
C22_EmptyLabelSetError ==
    (va_pc \notin {"off", "loaded"} /\ VALabelled = {}
        /\ Len(Flatten(va_prediction)) = Len(Flatten(va_ground_truth))) =>
        /\ va_pc = "error" /\ va_err = "EmptyLabelSetError"
        /\ va_cm = None /\ va_report = None

\* C26: for two label grids of one shape, the number of cells the change
\* map marks 1 is the number of changed pixels main() prints, the sum of the
\* change matrix minus its trace, background positions included.
C26_MapAgreesWithSummary ==
    (ta_pc = "done" /\ LabelPair) =>
        /\ NpSum(change_map) = MatrixSum(change_matrix) - MatrixTrace(change_matrix)
        /\ NpSum(change_map) = summary.changed

\* ---- preprocessing (preprocessing.py)
\* C25: normalize_image returns values from 0 to 1, 0 at the cells holding
\* the minimum of the input and 1 at the cells holding its maximum, for
\* every image, one whose cells are all equal included.
C25_NormalizeRange ==
    (pp_pc \notin {"off", "loaded"}) =>
        \A b \in 1..Len(pp_image) : \A p \in Cells(ImageShape(pp_image)) :
            LET x == pp_image[b][p[1]][p[2]]
                y == pp_normalized[b][p[1]][p[2]]
            IN  /\ IsNum(y) /\ 0 <= y.n /\ y.n <= y.d
                /\ x = ImageMin(pp_image) => y = FromInt(0)
                /\ x = ImageMax(pp_image) /\ x # ImageMin(pp_image) => y = FromInt(1)

\* ---- grid alignment (simple_classification.py, preprocessing.py)
\* C23: grid alignment returns a grid of the reference's height and width,
\* and a grid that already has them comes back equal to itself.  The
\* land-cover raster is aligned to the Sentinel-2 raster by the read of
\* load_and_prepare_data; a raster is aligned to the target resolution by
\* resample_image, which has to return.
C23_GridAlignment ==
    /\ (sc_pc \in {"train", "classify", "plot"}) =>
          /\ Shape(sc_aligned) = ImageShape(sc_sentinel[sc_year])
          /\ Shape(sc_landcover) = ImageShape(sc_sentinel[sc_year]) =>
                sc_aligned = sc_landcover
    /\ (pp_pc \notin {"off", "loaded", "normalized"}) =>
          pp_pc = "resampled" /\ pp_err = "none"

\* ---- the yearly run (simple_classification.py)
\* C27: main() reaches "Done! All years processed." with a classification
\* result written and plotted for every year whose Sentinel-2 and land-cover
\* files exist, a year without them being skipped.
C27_AllYearsProcessed ==
    <>(/\ sc_pc = "done"
       /\ \A y \in 1..Len(years) :
             Exists(y) => sc_results[y] # None /\ y \in sc_plots)

\* ---- frame conditions
\* The band arrays the scripts hand to the index functions, extract_features,
\* save_features, normalize_image, resample_image, classify_image and predict,
\* and the metadata records they hand to save_features and resample_image.
InputGrids ==
    <<image_2018, image_2023, ri_image, sentinel_data, pp_image, sc_sentinel, cl_features>>
CallerMeta == <<fe_meta, pp_meta>>
\* C24: no call changes a grid or a metadata record it was handed: across
\* every step the input band arrays, the feature stack once it exists, and
\* the callers' metadata records (transform, width, height, count, dtype)
\* keep their values.
C24_NoInputMutation ==
    [][/\ InputGrids' = InputGrids
       /\ feature_stack # None => feature_stack' = feature_stack
       /\ CallerMeta' = CallerMeta]_vars

====
